---- MODULE Spec2Model ----
(***************************************************************************)
(* A model of the c8 CHIP-8 interpreter (interpreter/src/lib.rs and        *)
(* interpreter/src/timer.rs) as a state machine.                           *)
(*                                                                         *)
(* The variable c8 is the C8 struct, field by field, together with the     *)
(* panic message of the thread that runs it (a Rust panic ends the         *)
(* process, so nothing happens after it).  The variable now is the value   *)
(* Instant::now() returns, in clock units of 1/60 second.                  *)
(***************************************************************************)
EXTENDS Integers, Sequences, FiniteSets, TLC

VARIABLES c8, now

vars == <<c8, now>>

(***************************************************************************)
(* Bounds of the model.                                                    *)
(***************************************************************************)
\* latest clock value a tick is taken at
MaxTime == 1
\* largest clock advance between two ticks
MaxElapse == 1
\* largest accumulated time a timer is followed to
MaxAcc == 2
\* the same three, where the timers are followed until they decay
MaxTimerTime == 14
MaxTimerElapse == 2
MaxTimerAcc == 110
\* largest value a program gives the delay timer
MaxGiven == 3
\* the registers an ALU or draw program names are 0..MaxReg and 15
MaxReg == 2
\* register values are taken within EdgeWidth of 0, 128 and 255
EdgeWidth == 1
\* the keys the host presses are 0..MaxKey and 15
MaxKey == 2
\* largest number of keys held down together
MaxDown == 2
\* largest number of return addresses followed on the stack
MaxStack == 3
\* entries beyond its capacity that the call stack of the machine running
\* the self-calling program is followed for
MaxOver == 1
\* largest value the index register is followed to
MaxIndex == 4400

(***************************************************************************)
(* Constants of lib.rs and timer.rs.                                       *)
(***************************************************************************)
DEFAULT_MEM_SIZE == 4096

\* the capacity the call stack is constructed with
STACK_CAPACITY == 1024

\* the ticks the host runs per frame
FRAME_TICKS == 10
FONT_START == \H50
PROGRAM_START == \H200
WIDTH == 64
HEIGHT == 32
\* Duration::from_secs(1), in clock units
ONE_SECOND == 60

FONT ==
  << \HF0, \H90, \H90, \H90, \HF0,
     \H20, \H60, \H20, \H20, \H70,
     \HF0, \H10, \HF0, \H80, \HF0,
     \HF0, \H10, \HF0, \H10, \HF0,
     \H90, \H90, \HF0, \H10, \H10,
     \HF0, \H80, \HF0, \H10, \HF0,
     \HF0, \H80, \HF0, \H90, \HF0,
     \HF0, \H10, \H20, \H40, \H40,
     \HF0, \H90, \HF0, \H90, \HF0,
     \HF0, \H90, \HF0, \H10, \HF0,
     \HF0, \H90, \HF0, \H90, \H90,
     \HE0, \H90, \HE0, \H90, \HE0,
     \HF0, \H80, \H80, \H80, \HF0,
     \HE0, \H90, \H90, \H90, \HE0,
     \HF0, \H80, \HF0, \H80, \HF0,
     \HF0, \H80, \HF0, \H80, \H80 >>

(***************************************************************************)
(* Panics.  NoPanic while the thread runs; else the message it died with.  *)
(***************************************************************************)
NoPanic == "none"
MemoryOutOfBounds == "index out of bounds: the len is 4096"
InputOutOfBounds == "index out of bounds: the len is 16"
UnknownInstruction == "unknown instruction"
EmptyStack == "stack empty in ret"

Panic(s, msg) == IF s.panic = NoPanic THEN [s EXCEPT !.panic = msg] ELSE s

(***************************************************************************)
(* u8 arithmetic.                                                          *)
(***************************************************************************)
Pow2(k) == CASE k = 0 -> 1 [] k = 1 -> 2 [] k = 2 -> 4 [] k = 3 -> 8
             [] k = 4 -> 16 [] k = 5 -> 32 [] k = 6 -> 64 [] k = 7 -> 128
             [] OTHER -> 256

Bit(v, k) == (v \div Pow2(k)) % 2

BitAnd(a, b) ==
  LET d(k) == IF Bit(a, k) = 1 /\ Bit(b, k) = 1 THEN Pow2(k) ELSE 0
  IN  d(0) + d(1) + d(2) + d(3) + d(4) + d(5) + d(6) + d(7)

BitOr(a, b) ==
  LET d(k) == IF Bit(a, k) = 1 \/ Bit(b, k) = 1 THEN Pow2(k) ELSE 0
  IN  d(0) + d(1) + d(2) + d(3) + d(4) + d(5) + d(6) + d(7)

BitXor(a, b) ==
  LET d(k) == IF Bit(a, k) # Bit(b, k) THEN Pow2(k) ELSE 0
  IN  d(0) + d(1) + d(2) + d(3) + d(4) + d(5) + d(6) + d(7)

\* impl AsU16 for (u8, u8, u8)
as_u16_3(a, b, c) == a * 256 + b * 16 + c

\* impl AsU16 for (u8, u8)
as_u16_2(a, b) == as_u16_3(0, a, b)

\* impl AsInstruction for (u8, u8)
as_instruction(b0, b1) == << b0 \div 16, b0 % 16, b1 \div 16, b1 % 16 >>

(***************************************************************************)
(* Timer (timer.rs).                                                       *)
(***************************************************************************)
FreqDefault == [ticks |-> 1, duration |-> ONE_SECOND]

Timer_with_freq(val, freq, t) ==
  [val |-> val, wait |-> freq.duration \div freq.ticks, acc |-> 0, last |-> t]

Timer_new(val, t) == Timer_with_freq(val, FreqDefault, t)

Timer_zero(t) == Timer_new(0, t)

\* the while loop of Timer::update
RECURSIVE Timer_decay(_)
Timer_decay(tm) ==
  IF tm.val > 0 /\ tm.acc >= tm.wait
  THEN Timer_decay([tm EXCEPT !.val = IF @ > 0 THEN @ - 1 ELSE 0,
                              !.acc = @ - tm.wait])
  ELSE tm

\* update whose loop runs on the accumulator alone and subtracts wrapping
Timer_update_wrapping(tm, t) ==
  LET acc == tm.acc + (t - tm.last)
      k   == acc \div tm.wait
  IN  [tm EXCEPT !.val = (@ - k) % 256, !.acc = acc - k * tm.wait]

\* Timer::update, called when Instant::now() is t
Timer_update(tm, t) == Timer_decay([tm EXCEPT !.acc = @ + (t - tm.last)])

Timer_val(tm) == tm.val

(***************************************************************************)
(* C8 (lib.rs).                                                            *)
(***************************************************************************)
\* mem[at..at + buf.len()].copy_from_slice(&buf), byte k of buf onwards
RECURSIVE copy_from_slice(_, _, _, _)
copy_from_slice(mem, at, buf, k) ==
  IF k > Len(buf) THEN mem
  ELSE copy_from_slice([mem EXCEPT ![at + k - 1] = buf[k]], at, buf, k + 1)

\* impl Default for C8, built when Instant::now() is t
C8_default(t) ==
  [ memory  |-> copy_from_slice([a \in 0..(DEFAULT_MEM_SIZE - 1) |-> 0],
                                FONT_START, FONT, 1),
    pc      |-> PROGRAM_START,
    i       |-> 0,
    reg     |-> [r \in 0..15 |-> 0],
    display |-> {},
    stack   |-> << >>,
    delay   |-> Timer_zero(t),
    sound   |-> Timer_zero(t),
    input   |-> [k \in 0..15 |-> FALSE],
    panic   |-> NoPanic ]

C8_new(t) == C8_default(t)

\* C8::load_program with the bytes read from the file
load_program(s, buf) ==
  IF PROGRAM_START + Len(buf) > DEFAULT_MEM_SIZE
  THEN Panic(s, MemoryOutOfBounds)
  ELSE [s EXCEPT !.memory = copy_from_slice(@, PROGRAM_START, buf, 1)]

\* C8::key_pressed
key_pressed(s, key, pressed) ==
  IF key > 15 THEN Panic(s, InputOutOfBounds)
  ELSE [s EXCEPT !.input[key] = pressed]

\* the instruction C8::fetch decodes at the program counter
fetched(s) ==
  IF s.pc + 1 > DEFAULT_MEM_SIZE - 1 THEN <<0, 0, 0, 0>>
  ELSE as_instruction(s.memory[s.pc], s.memory[s.pc + 1])

\* C8::fetch: the state it leaves
fetch(s) ==
  IF s.pc + 1 > DEFAULT_MEM_SIZE - 1
  THEN Panic(s, MemoryOutOfBounds)
  ELSE [s EXCEPT !.pc = @ + 2]

clear_screen(s) == [s EXCEPT !.display = {}]

jump(s, to) == [s EXCEPT !.pc = to]

set_reg(s, x, val) == [s EXCEPT !.reg[x] = val % 256]

add_to_reg(s, x, val) == [s EXCEPT !.reg[x] = (@ + (val % 256)) % 256]

set_index(s, val) == [s EXCEPT !.i = val]

add_to_index(s, x) == [s EXCEPT !.i = @ + s.reg[x]]

skip_if(s, skip) == IF skip THEN fetch(s) ELSE s

\* sub pushing the return address at the back of the deque
sub_back(s, at) == [s EXCEPT !.stack = @ \o <<s.pc>>, !.pc = at]

sub(s, at) == [s EXCEPT !.stack = <<s.pc>> \o @, !.pc = at]

ret(s) ==
  IF s.stack = << >> THEN Panic(s, EmptyStack)
  ELSE [s EXCEPT !.pc = Head(s.stack), !.stack = Tail(@)]

assign(s, x, y) == [s EXCEPT !.reg[x] = s.reg[y]]

or(s, x, y) == [s EXCEPT !.reg[x] = BitOr(@, s.reg[y])]

and(s, x, y) == [s EXCEPT !.reg[x] = BitAnd(@, s.reg[y])]

xor(s, x, y) == [s EXCEPT !.reg[x] = BitXor(@, s.reg[y])]

\* the inner loop of C8::draw: bits c..7 of the byte row, on display row
\* vy + r
RECURSIVE draw_row(_, _, _, _, _, _)
draw_row(s, vx, vy, r, row, c) ==
  IF c >= 8 THEN s
  ELSE LET cell == <<vx + c, vy + r>>
           s1   == IF Bit((row * Pow2(c)) % 256, 7) > 0
                      /\ vx + c < WIDTH /\ vy + r < HEIGHT
                   THEN IF cell \in s.display
                        THEN [s EXCEPT !.display = @ \ {cell}, !.reg[15] = 1]
                        ELSE [s EXCEPT !.display = @ \cup {cell}]
                   ELSE s
       IN  draw_row(s1, vx, vy, r, row, c + 1)

\* the outer loop of C8::draw: rows r..height - 1 of the sprite
RECURSIVE draw_rows(_, _, _, _, _)
draw_rows(s, vx, vy, height, r) ==
  IF r >= height THEN s
  ELSE IF s.i + r > DEFAULT_MEM_SIZE - 1 THEN Panic(s, MemoryOutOfBounds)
  ELSE draw_rows(draw_row(s, vx, vy, r, s.memory[s.i + r], 0),
                 vx, vy, height, r + 1)

\* draw taking the coordinates before it clears register 15
draw_coords_first(s, x, y, height) ==
  LET vx == s.reg[x] % WIDTH
      vy == s.reg[y] % HEIGHT
      s0 == [s EXCEPT !.reg[15] = 0]
  IN  draw_rows(s0, vx, vy, height, 0)

\* draw leaving register 15 as it finds it until a cell is erased
draw_flag_kept(s, x, y, height) ==
  LET vx == s.reg[x] % WIDTH
      vy == s.reg[y] % HEIGHT
  IN  draw_rows(s, vx, vy, height, 0)

draw(s, x, y, height) ==
  LET s0 == [s EXCEPT !.reg[15] = 0]
      vx == s0.reg[x] % WIDTH
      vy == s0.reg[y] % HEIGHT
  IN  draw_rows(s0, vx, vy, height, 0)

\* plus raising the flag from 255 on
plus_early(s, x, y) ==
  LET sum      == (s.reg[x] + s.reg[y]) % 256
      overflow == s.reg[x] + s.reg[y] >= 255
      s1       == [s EXCEPT !.reg[x] = sum]
  IN  [s1 EXCEPT !.reg[15] = IF overflow THEN 1 ELSE 0]

plus(s, x, y) ==
  LET sum      == (s.reg[x] + s.reg[y]) % 256
      overflow == s.reg[x] + s.reg[y] > 255
      s1       == [s EXCEPT !.reg[x] = sum]
  IN  [s1 EXCEPT !.reg[15] = IF overflow THEN 1 ELSE 0]

\* minus with a borrow flag
minus_borrow(s, x, y) ==
  LET diff      == (s.reg[x] - s.reg[y]) % 256
      underflow == s.reg[x] < s.reg[y]
      s1        == [s EXCEPT !.reg[x] = diff]
  IN  [s1 EXCEPT !.reg[15] = IF underflow THEN 1 ELSE 0]

minus(s, x, y) ==
  LET diff      == (s.reg[x] - s.reg[y]) % 256
      underflow == s.reg[x] < s.reg[y]
      s1        == [s EXCEPT !.reg[x] = diff]
  IN  [s1 EXCEPT !.reg[15] = IF ~underflow THEN 1 ELSE 0]

shr(s, x) ==
  LET s1 == [s EXCEPT !.reg[15] = IF BitAnd(s.reg[x], 1) > 0 THEN 1 ELSE 0]
  IN  [s1 EXCEPT !.reg[x] = s1.reg[x] \div 2]

diff(s, x, y) ==
  LET d         == (s.reg[y] - s.reg[x]) % 256
      underflow == s.reg[y] < s.reg[x]
      s1        == [s EXCEPT !.reg[x] = d]
  IN  [s1 EXCEPT !.reg[15] = IF ~underflow THEN 1 ELSE 0]

shl(s, x) ==
  LET s1 == [s EXCEPT !.reg[15] = IF BitAnd(s.reg[x], 128) > 0 THEN 1 ELSE 0]
  IN  [s1 EXCEPT !.reg[x] = (s1.reg[x] * 2) % 256]

dump(s, x) ==
  IF s.i + x > DEFAULT_MEM_SIZE - 1 THEN Panic(s, MemoryOutOfBounds)
  ELSE [s EXCEPT !.memory =
          copy_from_slice(@, s.i, [k \in 1..(x + 1) |-> s.reg[k - 1]], 1)]

load(s, x) ==
  IF s.i + x > DEFAULT_MEM_SIZE - 1 THEN Panic(s, MemoryOutOfBounds)
  ELSE [s EXCEPT !.reg = [r \in 0..15 |->
                            IF r <= x THEN s.memory[s.i + r] ELSE @[r]]]

\* bcd storing one byte further on
bcd_shifted(s, x) ==
  LET vx     == s.reg[x]
      digits == << vx \div 100, (vx % 100) \div 10, (vx % 100) % 10 >>
  IN  IF s.i + 4 > DEFAULT_MEM_SIZE THEN Panic(s, MemoryOutOfBounds)
      ELSE [s EXCEPT !.memory = copy_from_slice(@, s.i + 1, digits, 1)]

bcd(s, x) ==
  LET vx     == s.reg[x]
      digits == << vx \div 100, (vx % 100) \div 10, (vx % 100) % 10 >>
  IN  IF s.i + 3 > DEFAULT_MEM_SIZE THEN Panic(s, MemoryOutOfBounds)
      ELSE [s EXCEPT !.memory = copy_from_slice(@, s.i, digits, 1)]

char(s, x) == [s EXCEPT !.i = FONT_START + (s.reg[x] * 5)]

\* C8::delay, executed when Instant::now() is t
delay(s, x, t) == [s EXCEPT !.delay = Timer_new(s.reg[x], t)]

get_delay(s, x) == [s EXCEPT !.reg[x] = Timer_val(s.delay)]

\* C8::sound, executed when Instant::now() is t
sound(s, x, t) == [s EXCEPT !.sound = Timer_new(s.reg[x], t)]

\* get_key stepping back one byte
get_key_rewind1(s, x) ==
  IF \E k \in 0..15 : s.input[k]
  THEN [s EXCEPT !.reg[x] =
          CHOOSE k \in 0..15 : s.input[k] /\ \A j \in 0..(k - 1) : ~s.input[j]]
  ELSE [s EXCEPT !.pc = @ - 1]

\* get_key storing the highest key that is down
get_key_last(s, x) ==
  IF \E k \in 0..15 : s.input[k]
  THEN [s EXCEPT !.reg[x] =
          CHOOSE k \in 0..15 : s.input[k] /\ \A j \in (k + 1)..15 : ~s.input[j]]
  ELSE [s EXCEPT !.pc = @ - 2]

get_key(s, x) ==
  IF \E k \in 0..15 : s.input[k]
  THEN [s EXCEPT !.reg[x] =
          CHOOSE k \in 0..15 : s.input[k] /\ \A j \in 0..(k - 1) : ~s.input[j]]
  ELSE [s EXCEPT !.pc = @ - 2]

\* C8::and_rand, where random::<u8>() returns rnd
and_rand(s, x, val, rnd) ==
  LET r == rnd % 255
  IN  [s EXCEPT !.reg[x] = BitAnd(r, val % 256)]

\* the test of Ex9E and ExA1: self.input[self.reg[x] as usize]
key_down(s, x) == s.reg[x] <= 15 /\ s.input[s.reg[x]]

skip_if_key(s, x, down) ==
  IF s.reg[x] > 15 THEN Panic(s, InputOutOfBounds)
  ELSE skip_if(s, key_down(s, x) = down)

\* C8::execute, when Instant::now() is t and random::<u8>() returns rnd
execute(s, ins, t, rnd) ==
  LET a == ins[1]
      b == ins[2]
      c == ins[3]
      d == ins[4]
  IN  CASE ins = <<0, 0, 14, 0>>  -> clear_screen(s)
        [] ins = <<0, 0, 14, 14>> -> ret(s)
        [] a = 1  -> jump(s, as_u16_3(b, c, d))
        [] a = 2  -> sub(s, as_u16_3(b, c, d))
        [] a = 3  -> skip_if(s, s.reg[b] = as_u16_2(c, d))
        [] a = 4  -> skip_if(s, s.reg[b] # as_u16_2(c, d))
        [] a = 5  -> skip_if(s, s.reg[b] = s.reg[c])
        [] a = 6  -> set_reg(s, b, as_u16_2(c, d))
        [] a = 7  -> add_to_reg(s, b, as_u16_2(c, d))
        [] a = 8 /\ d = 0  -> assign(s, b, c)
        [] a = 8 /\ d = 1  -> or(s, b, c)
        [] a = 8 /\ d = 2  -> and(s, b, c)
        [] a = 8 /\ d = 3  -> xor(s, b, c)
        [] a = 8 /\ d = 4  -> plus(s, b, c)
        [] a = 8 /\ d = 5  -> minus(s, b, c)
        [] a = 8 /\ d = 6  -> shr(s, b)
        [] a = 8 /\ d = 7  -> diff(s, b, c)
        [] a = 8 /\ d = 14 -> shl(s, b)
        [] a = 9  -> skip_if(s, s.reg[b] # s.reg[c])
        [] a = 10 -> set_index(s, as_u16_3(b, c, d))
        [] a = 12 -> and_rand(s, b, as_u16_2(c, d), rnd)
        [] a = 13 -> draw(s, b, c, d)
        [] a = 14 /\ c = 9 /\ d = 14 -> skip_if_key(s, b, TRUE)
        [] a = 14 /\ c = 10 /\ d = 1 -> skip_if_key(s, b, FALSE)
        [] a = 15 /\ c = 0 /\ d = 10 -> get_key(s, b)
        [] a = 15 /\ c = 3 /\ d = 3  -> bcd(s, b)
        [] a = 15 /\ c = 5 /\ d = 5  -> dump(s, b)
        [] a = 15 /\ c = 6 /\ d = 5  -> load(s, b)
        [] a = 15 /\ c = 2 /\ d = 9  -> char(s, b)
        [] a = 15 /\ c = 1 /\ d = 5  -> delay(s, b, t)
        [] a = 15 /\ c = 1 /\ d = 8  -> sound(s, b, t)
        [] a = 15 /\ c = 0 /\ d = 7  -> get_delay(s, b)
        [] a = 15 /\ c = 1 /\ d = 14 -> add_to_index(s, b)
        [] OTHER -> Panic(s, UnknownInstruction)

\* tick advancing the timers after the instruction instead of before it
tick_timers_last(s, t, rnd) ==
  LET ins == fetched(s)
      s2  == fetch(s)
      s3  == IF s2.panic # NoPanic THEN s2 ELSE execute(s2, ins, t, rnd)
  IN  [s3 EXCEPT !.delay = Timer_update(@, t),
                 !.sound = Timer_update(@, t)]

\* C8::tick, when Instant::now() is t and random::<u8>() returns rnd
tick(s, t, rnd) ==
  LET s1  == [s EXCEPT !.delay = Timer_update(@, t),
                       !.sound = Timer_update(@, t)]
      ins == fetched(s1)
      s2  == fetch(s1)
  IN  IF s2.panic # NoPanic THEN s2 ELSE execute(s2, ins, t, rnd)

(***************************************************************************)
(* The host (cli/src/main.rs): it builds the machine, loads a program,     *)
(* and then calls key_pressed and tick.                                    *)
(***************************************************************************)
\* the values random::<u8>() can return to the instruction about to run
RandomBytes(s) == IF fetched(s)[1] = 12 THEN 0..255 ELSE {0}

\* c8.tick() at a clock value lo..hi past the previous call
TickWith(lo, hi, maxTime, maxAcc, maxStack) ==
  /\ c8.panic = NoPanic
  /\ \E t \in (now + lo)..(now + hi) :
       /\ t <= maxTime
       /\ now' = t
       /\ \E rnd \in RandomBytes(c8) :
            LET s == tick(c8, t, rnd)
            IN  /\ s.delay.acc <= maxAcc
                /\ s.sound.acc <= maxAcc
                /\ Len(s.stack) <= maxStack
                /\ s.i <= MaxIndex
                /\ c8' = s

TickIn(lo, hi, maxTime, maxAcc) ==
  TickWith(lo, hi, maxTime, maxAcc, MaxStack)

Tick == TickIn(0, MaxElapse, MaxTime, MaxAcc)

\* the key codes of keys_to_key_codes that are followed
HostKeys == (0..MaxKey) \cup {15}

\* c8.key_pressed(key, pressed) for a key code of keys_to_key_codes
KeyPressed ==
  /\ c8.panic = NoPanic
  /\ \E key \in HostKeys, pressed \in BOOLEAN :
       LET s == key_pressed(c8, key, pressed)
       IN  /\ Cardinality({k \in 0..15 : s.input[k]}) <= MaxDown
           /\ c8' = s
  /\ UNCHANGED now

\* C8::new() when Instant::now() is 0
Fresh == {C8_new(0)}

(***************************************************************************)
(* Programs.                                                               *)
(***************************************************************************)
\* Fx0A ; 1200
KeyWaitRom(x) == << \HF0 + x, \H0A, \H12, \H00 >>

\* 0x200: 1203   0x203: 00E0   0x205: 1200
OddJumpRom == << \H12, \H03, \HE0, \H00, \HE0, \H12, \H00 >>

\* 0x200: 2204  1200  0x204: 2208  00EE  0x208: 00EE
CallRetRom == << \H22, \H04, \H12, \H00, \H22, \H08, \H00, \HEE, \H00, \HEE >>

\* 0x200: 2200
RecurseRom == << \H22, \H00 >>

\* 6001 3001 0000 4001 5010 9010 0000 E09E E0A1 1200 1200
SkipRom ==
  << \H60, \H01, \H30, \H01, \H00, \H00, \H40, \H01, \H50, \H10, \H90, \H10,
     \H00, \H00, \HE0, \H9E, \HE0, \HA1, \H12, \H00, \H12, \H00 >>

\* A050 6005 F055 1206
FontDumpRom == << \HA0, \H50, \H60, \H05, \HF0, \H55, \H12, \H06 >>

\* A09E 607B F033 F265 1208
FontBcdRom == << \HA0, \H9E, \H60, \H7B, \HF0, \H33, \HF2, \H65, \H12, \H08 >>

\* A04D 60FF F033 1206
LowBcdRom == << \HA0, \H4D, \H60, \HFF, \HF0, \H33, \H12, \H06 >>

\* A0A0 6107 F155 6100 F165 120A
HighDumpRom ==
  << \HA0, \HA0, \H61, \H07, \HF1, \H55, \H61, \H00, \HF1, \H65, \H12, \H0A >>

\* AFFF F033
EdgeBcdRom == << \HAF, \HFF, \HF0, \H33 >>

\* AFFF 60FF F01E F055
AddIndexRom == << \HAF, \HFF, \H60, \HFF, \HF0, \H1E, \HF0, \H55 >>

\* 1FFF
EdgeJumpRom == << \H1F, \HFF >>

\* 00EE
RetRom == << \H00, \HEE >>

\* 6003 F015 F107 F018 1204
TimerRom == << \H60, \H03, \HF0, \H15, \HF1, \H07, \HF0, \H18, \H12, \H04 >>

\* C081 1202
RandRom == << \HC0, \H81, \H12, \H02 >>

\* 6210 F229 D005 00E0 1204
GlyphRom == << \H62, \H10, \HF2, \H29, \HD0, \H05, \H00, \HE0, \H12, \H04 >>

\* 60FF E09E
BadKeyRom == << \H60, \HFF, \HE0, \H9E >>

\* 60FF E0A1
BadKeyUpRom == << \H60, \HFF, \HE0, \HA1 >>

\* 5001 0000 1204
Odd5Rom == << \H50, \H01, \H00, \H00, \H12, \H04 >>

\* 6101 9011 0000 1206
Odd9Rom == << \H61, \H01, \H90, \H11, \H00, \H00, \H12, \H06 >>

\* B000
BRom == << \HB0, \H00 >>

\* 8008
Alu8Rom == << \H80, \H08 >>

\* 0123
SysRom == << \H01, \H23 >>

\* F000
FRom == << \HF0, \H00 >>

\* AFFE 6040 6100 F155 1FFE, which stores 4000 at 0xFFE and jumps there
EdgeSkipRom ==
  << \HAF, \HFE, \H60, \H40, \H61, \H00, \HF1, \H55, \H1F, \HFE >>

Roms ==
  { KeyWaitRom(3), KeyWaitRom(15), OddJumpRom, CallRetRom, RecurseRom, SkipRom,
    FontDumpRom, FontBcdRom, LowBcdRom, HighDumpRom, EdgeBcdRom, AddIndexRom,
    EdgeJumpRom, RetRom, TimerRom, RandRom, GlyphRom, BadKeyRom, << >>,
    BadKeyUpRom, Odd5Rom, Odd9Rom, BRom, Alu8Rom, SysRom, FRom, EdgeSkipRom }

\* does memory hold the bytes buf from PROGRAM_START on
Holds(s, buf) ==
  \A k \in 1..Len(buf) : s.memory[PROGRAM_START + k - 1] = buf[k]

(***************************************************************************)
(* The machine under the host loop.                                        *)
(***************************************************************************)
Init ==
  /\ now = 0
  /\ \E buf \in Roms, m \in Fresh : c8 = load_program(m, buf)

Next == Tick \/ KeyPressed

Spec == Init /\ [][Next]_vars

(***************************************************************************)
(* The ALU instructions 8xy4, 8xy5, 8xy6, 8xy7 and 8xyE on registers set   *)
(* by 6xnn.                                                                *)
(***************************************************************************)
OpRegs == (0..MaxReg) \cup {15}

EdgeVals ==
  {v \in 0..255 : \/ v <= EdgeWidth
                  \/ v >= 128 - EdgeWidth /\ v <= 128 + EdgeWidth
                  \/ v >= 255 - EdgeWidth}

AluOps == {4, 5, 6, 7, 14}

\* 6x vx ; 6y vy ; 8xyn ; 1206
AluRom(x, y, vx, vy, n) ==
  << \H60 + x, vx, \H60 + y, vy, \H80 + x, 16 * y + n, \H12, \H06 >>

InitAlu ==
  /\ now = 0
  /\ \E x \in OpRegs, y \in OpRegs, vx \in EdgeVals, vy \in EdgeVals, n \in AluOps :
       \E m \in Fresh : c8 = load_program(m, AluRom(x, y, vx, vy, n))

\* c8.tick() with the clock where it was
TickNow == TickIn(0, 0, 0, 0)

SpecAlu == InitAlu /\ [][TickNow]_vars

(***************************************************************************)
(* Dxyn on registers set by 6xnn, on an empty display and then, moved 3    *)
(* to the right, over what it drew.                                        *)
(***************************************************************************)
\* the sprites drawn, as <<address, height>>: a glyph of the font, nothing,
\* the program's own bytes, and 15 rows from 8 bytes before the end of memory
Sprites ==
  { <<FONT_START, 5>>, <<FONT_START, 0>>, <<PROGRAM_START + 1, 15>>,
    <<DEFAULT_MEM_SIZE - 8, 15>> }

\* 6x vx ; 6y vy ; Annn ; Dxyn ; 7x03 ; Dxyn ; 120A
DrawRom(x, y, vx, vy, nnn, n) ==
  << \H60 + x, vx, \H60 + y, vy, \HA0 + (nnn \div 256), nnn % 256,
     \HD0 + x, 16 * y + n, \H70 + x, \H03, \HD0 + x, 16 * y + n, \H12, \H0A >>

InitDraw ==
  /\ now = 0
  /\ \E x \in OpRegs, y \in OpRegs, vx \in EdgeVals, vy \in EdgeVals,
        sp \in Sprites :
       \E m \in Fresh : c8 = load_program(m, DrawRom(x, y, vx, vy, sp[1], sp[2]))

SpecDraw == InitDraw /\ [][TickNow]_vars

(***************************************************************************)
(* The delay timer set by Fx15 and left to decay while the program loops,  *)
(* each tick later on the clock than the one before.                       *)
(***************************************************************************)
\* 60 v ; F015 ; 1204
DelayRom(v) == << \H60, v, \HF0, \H15, \H12, \H04 >>

InitTimer ==
  /\ now = 0
  /\ \E v \in 1..MaxGiven, m \in Fresh : c8 = load_program(m, DelayRom(v))

\* c8.tick() at a later clock value than the previous call
TickLater == TickIn(1, MaxTimerElapse, MaxTimerTime, MaxTimerAcc)

SpecTimer == InitTimer /\ [][TickLater]_vars

\* 60 v; F015; F018; F107; 1206: both timers are set to v and the delay
\* timer is read over and over while wall-clock time passes
ClockRom(v) ==
  << \H60, v, \HF0, \H15, \HF0, \H18, \HF1, \H07, \H12, \H06 >>

InitClock ==
  /\ now = 0
  /\ \E m \in Fresh : \E v \in 0..MaxGiven : c8 = load_program(m, ClockRom(v))

SpecClock == InitClock /\ [][TickLater]_vars

\* the masks nn of the Cxnn programs
Masks == { \H00, \H0F, \H81, \HFF }

\* 6000 C0nn 1202
MaskRom(nn) == << \H60, \H00, \HC0, nn, \H12, \H02 >>

InitRand ==
  /\ now = 0
  /\ \E m \in Fresh : \E nn \in Masks : c8 = load_program(m, MaskRom(nn))

SpecRand == InitRand /\ [][TickNow]_vars

\* the machine running 2200, the call of itself
InitDeep ==
  /\ now = 0
  /\ \E m \in Fresh : c8 = load_program(m, RecurseRom)

TickDeep == TickWith(0, 0, 0, 0, STACK_CAPACITY + MaxOver)

\* for _ in 0..n { c8.tick() } when Instant::now() is t throughout; a
\* panic ends the loop.  The program of this machine draws no random byte.
RECURSIVE ticks(_, _, _)
ticks(s, t, n) ==
  IF n = 0 \/ s.panic # NoPanic THEN s ELSE ticks(tick(s, t, 0), t, n - 1)

\* the ticks of one frame of the host's loop
FrameDeep ==
  /\ c8.panic = NoPanic
  /\ LET s == ticks(c8, now, FRAME_TICKS)
     IN  /\ Len(s.stack) <= STACK_CAPACITY + MaxOver
         /\ c8' = s
  /\ now' = now

NextDeep == TickDeep \/ FrameDeep

SpecDeep == InitDeep /\ [][NextDeep]_vars

(***************************************************************************)
(* Properties.                                                             *)
(***************************************************************************)
\* the keys that are down
Down(s) == {k \in 0..15 : s.input[k]}

\* the least element of a non-empty set of numbers
Least(S) == CHOOSE k \in S : \A j \in S : k <= j

IsKeyWait(ins) == ins[1] = 15 /\ ins[3] = 0 /\ ins[4] = 10

\* C1: a tick that fetches Fx0A while no key is down leaves the program
\* counter and the registers as they were; a tick that fetches it while a
\* key is down ends 2 past the instruction with the lowest key that is down
\* in register x.  Key events may come between any two ticks.
C1_KeyWait ==
  [][ (IsKeyWait(fetched(c8)) /\ Tick) =>
        IF Down(c8) = {}
        THEN c8'.pc = c8.pc /\ c8'.reg = c8.reg
        ELSE /\ c8'.pc = c8.pc + 2
             /\ c8'.reg[fetched(c8)[2]] = Least(Down(c8)) ]_vars

\* the wait of F30A has ended with keys 2 and 15 down
C1_Witness ==
  /\ Holds(c8, KeyWaitRom(3))
  /\ c8.pc = PROGRAM_START + 2
  /\ Down(c8) = {2, 15}
  /\ c8.reg[3] = 2

IsAlu(ins, n) == ins[1] = 8 /\ ins[4] = n

\* the sum and the differences of registers x and y of a state, unwrapped
SumOf(s, ins) == s.reg[ins[2]] + s.reg[ins[3]]
MinusOf(s, ins) == s.reg[ins[2]] - s.reg[ins[3]]
DiffOf(s, ins) == s.reg[ins[3]] - s.reg[ins[2]]

\* C5 as stated: after 8xy4 register 15 is 1 iff the sum of the two
\* registers exceeds 255, else 0, and register x is the sum modulo 256,
\* for every x and y, 15 included.
C5_AddAsStated ==
  [][ (IsAlu(fetched(c8), 4) /\ TickNow) =>
        /\ c8'.reg[15] = (IF SumOf(c8, fetched(c8)) > 255 THEN 1 ELSE 0)
        /\ c8'.reg[fetched(c8)[2]] = SumOf(c8, fetched(c8)) % 256 ]_vars

\* C5 (amended): after 8xy4 register 15 is 1 iff the sum of the two
\* registers exceeds 255, else 0, for every x and y; register x is the sum
\* modulo 256 when x is not 15.
C5_Add ==
  [][ (IsAlu(fetched(c8), 4) /\ TickNow) =>
        /\ c8'.reg[15] = (IF SumOf(c8, fetched(c8)) > 255 THEN 1 ELSE 0)
        /\ fetched(c8)[2] # 15 =>
             c8'.reg[fetched(c8)[2]] = SumOf(c8, fetched(c8)) % 256 ]_vars

\* 8014 has added 1 to 255
C5_Witness ==
  /\ Holds(c8, AluRom(0, 1, 255, 1, 4))
  /\ c8.pc = PROGRAM_START + 6
  /\ c8.reg[0] = 0
  /\ c8.reg[15] = 1

\* C6 as stated: after 8xy5 register 15 is 1 iff register x >= register y,
\* after 8xy7 it is 1 iff register y >= register x, and register x holds
\* the difference modulo 256, for every x and y, 15 included.
C6_SubAsStated ==
  [][ ((IsAlu(fetched(c8), 5) \/ IsAlu(fetched(c8), 7)) /\ TickNow) =>
        LET ins == fetched(c8)
            d   == IF ins[4] = 5 THEN MinusOf(c8, ins) ELSE DiffOf(c8, ins)
        IN  /\ c8'.reg[15] = (IF d >= 0 THEN 1 ELSE 0)
            /\ c8'.reg[ins[2]] = d % 256 ]_vars

\* C6 (amended): the flags as stated, for every x and y; register x holds
\* the difference modulo 256 when x is not 15.
C6_Sub ==
  [][ ((IsAlu(fetched(c8), 5) \/ IsAlu(fetched(c8), 7)) /\ TickNow) =>
        LET ins == fetched(c8)
            d   == IF ins[4] = 5 THEN MinusOf(c8, ins) ELSE DiffOf(c8, ins)
        IN  /\ c8'.reg[15] = (IF d >= 0 THEN 1 ELSE 0)
            /\ ins[2] # 15 => c8'.reg[ins[2]] = d % 256 ]_vars

\* 8015 has taken 1 from 0
C6_Witness ==
  /\ Holds(c8, AluRom(0, 1, 0, 1, 5))
  /\ c8.pc = PROGRAM_START + 6
  /\ c8.reg[0] = 255
  /\ c8.reg[15] = 0

\* C7: after 8xy6 register 15 is bit 0 of the value register x held, and
\* after 8xyE it is bit 7 of that value, for every x, 15 included.
C7_ShiftFlag ==
  [][ ((IsAlu(fetched(c8), 6) \/ IsAlu(fetched(c8), 14)) /\ TickNow) =>
        LET ins == fetched(c8)
            v   == c8.reg[ins[2]]
        IN  c8'.reg[15] = (IF ins[4] = 6 THEN v % 2 ELSE v \div 128) ]_vars

IsDraw(ins) == ins[1] = 13

\* C4: a Dxyn executed again on the state the first Dxyn left (memory, the
\* index register and the registers untouched in between) leaves the
\* display as it was before the first.
C4_DrawTwice ==
  [][ (IsDraw(fetched(c8)) /\ c8'.panic = NoPanic /\ TickNow) =>
        LET again == execute(c8', fetched(c8), now', 0)
        IN  /\ again.panic = NoPanic
            /\ again.display = c8.display ]_vars

\* the glyph 0 has been drawn at column 0 and again at column 3, where it
\* erased a cell of the first
C4_Witness ==
  /\ Holds(c8, DrawRom(0, 1, 0, 0, FONT_START, 5))
  /\ c8.pc = PROGRAM_START + 12
  /\ c8.reg[15] = 1
  /\ <<0, 0>> \in c8.display
  /\ <<3, 0>> \notin c8.display
  /\ <<4, 0>> \in c8.display

\* 1/60 second, in clock units
SIXTIETH == ONE_SECOND \div 60

\* the program DelayRom has set the delay timer from register 0 and loops
DelaySet(s) ==
  /\ s.pc = PROGRAM_START + 4
  /\ Holds(s, DelayRom(s.reg[0]))

NonNeg(n) == IF n < 0 THEN 0 ELSE n

\* C2: after an update at clock value t, a timer given the value v at t0
\* holds max(0, v - floor((t - t0) / P)), P being its tick period, however
\* many updates came before.
C2_DecayByElapsedTime ==
  [][ (DelaySet(c8) /\ TickLater) =>
        c8'.delay.val =
          NonNeg(c8.reg[0] - ((now' - c8.delay.last) \div c8.delay.wait)) ]_vars

\* C3: a timer made by Timer::new(3) holds 0 after every update that comes
\* 3/60 second or more after it was made.
C3_DefaultRate ==
  [][ (DelaySet(c8) /\ c8.reg[0] = 3 /\ now' - c8.delay.last >= 3 * SIXTIETH
       /\ TickLater) =>
        c8'.delay.val = 0 ]_vars

\* the program counter and every return address are even
EvenAligned(s) ==
  /\ s.pc % 2 = 0
  /\ \A k \in 1..Len(s.stack) : s.stack[k] % 2 = 0

\* 1nnn or 2nnn with nnn odd
IsOddBranch(ins) == ins[1] \in {1, 2} /\ ins[4] % 2 = 1

\* C8 as stated: the program counter is even in every reachable state.
C8_PcEven == c8.pc % 2 = 0

\* C8 (amended): the program counter starts even, and a step of a machine
\* whose program counter and return addresses are all even leaves them all
\* even unless it executes a 1nnn or 2nnn with an odd address.
C8_Parity ==
  /\ EvenAligned(c8)
  /\ [][ (EvenAligned(c8) /\ ~IsOddBranch(fetched(c8))) => EvenAligned(c8') ]_vars

\* inside the second of two nested calls
C8_Witness ==
  /\ Holds(c8, CallRetRom)
  /\ c8.pc = PROGRAM_START + 8
  /\ c8.stack = << PROGRAM_START + 6, PROGRAM_START + 2 >>

\* the 80 bytes from FONT_START on are the font
FontIntact(s) == \A k \in 1..Len(FONT) : s.memory[FONT_START + k - 1] = FONT[k]

\* do the addresses lo..hi meet the font
MeetsFont(lo, hi) == lo <= FONT_START + Len(FONT) - 1 /\ hi >= FONT_START

\* the next instruction is an Fx55 or an Fx33 that stores into the font
StoresIntoFont(s) ==
  LET ins == fetched(s)
  IN  /\ ins[1] = 15
      /\ \/ ins[3] = 5 /\ ins[4] = 5 /\ MeetsFont(s.i, s.i + ins[2])
         \/ ins[3] = 3 /\ ins[4] = 3 /\ MeetsFont(s.i, s.i + 2)

\* C9 as stated: the 80 bytes at 0x50..0x9F equal FONT in every reachable
\* state.
C9_FontImmutable == FontIntact(c8)

\* C9 (amended): the 80 bytes at 0x50..0x9F equal FONT after construction
\* and program load, and every step keeps them so except an Fx55 or Fx33
\* whose target range I..I+x or I..I+2 meets 0x50..0x9F.
C9_FontKept ==
  /\ FontIntact(c8)
  /\ [][ (FontIntact(c8) /\ ~StoresIntoFont(c8)) => FontIntact(c8') ]_vars

\* Fx33 has stored 2, 5, 5 in the three bytes below the font
C9_Witness ==
  /\ Holds(c8, LowBcdRom)
  /\ c8.pc = PROGRAM_START + 6
  /\ c8.memory[FONT_START - 3] = 2
  /\ c8.memory[FONT_START - 1] = 5
  /\ FontIntact(c8)

\* C10: no tick faults on a memory access out of 0..4095, and the index
\* register stays in 0..4095.
C10_InRange ==
  /\ c8.panic # MemoryOutOfBounds
  /\ c8.i <= DEFAULT_MEM_SIZE - 1

IsKeyTest(ins) ==
  /\ ins[1] = 14
  /\ \/ ins[3] = 9 /\ ins[4] = 14
     \/ ins[3] = 10 /\ ins[4] = 1

\* C11: a tick that executes Ex9E or ExA1 reads the input vector at an
\* index in 0..15, whatever 8-bit value register x holds, and does not
\* fault on the index.
C11_KeyIndexInRange ==
  [][ (IsKeyTest(fetched(c8)) /\ Tick) =>
        /\ c8.reg[fetched(c8)[2]] \in 0..15
        /\ c8'.panic # InputOutOfBounds ]_vars

\* the program counter can be fetched at
Fetchable(s) == s.pc + 1 <= DEFAULT_MEM_SIZE - 1

\* the instructions of the table: 00E0, 00EE, 1nnn, 2nnn, 3xnn, 4xnn, 5xy0,
\* 6xnn, 7xnn, 8xy0..8xy7, 8xyE, 9xy0, Annn, Cxnn, Dxyn, Ex9E, ExA1, Fx07,
\* Fx0A, Fx15, Fx18, Fx1E, Fx29, Fx33, Fx55, Fx65
Known(ins) ==
  \/ ins = <<0, 0, 14, 0>>
  \/ ins = <<0, 0, 14, 14>>
  \/ ins[1] \in {1, 2, 3, 4, 6, 7, 10, 12, 13}
  \/ ins[1] \in {5, 9} /\ ins[4] = 0
  \/ ins[1] = 8 /\ ins[4] \in (0..7) \cup {14}
  \/ IsKeyTest(ins)
  \/ /\ ins[1] = 15
     /\ <<ins[3], ins[4]>> \in { <<0, 7>>, <<0, 10>>, <<1, 5>>, <<1, 8>>, <<1, 14>>,
                                <<2, 9>>, <<3, 3>>, <<5, 5>>, <<6, 5>> }

\* the fields an instruction can change are the same in s and t, the
\* program counter aside
SameButPc(s, t) ==
  /\ t.reg = s.reg
  /\ t.i = s.i
  /\ t.memory = s.memory
  /\ t.stack = s.stack
  /\ t.display = s.display
  /\ t.input = s.input

\* C12: a tick that fetches an instruction outside the table ends in the
\* fatal state and applies no operation; 5xyN and 9xyN with N # 0, Bnnn,
\* 8xy8..8xyD and 0nnn other than 00E0 and 00EE are such instructions.
C12_UnknownIsFatal ==
  [][ (Fetchable(c8) /\ ~Known(fetched(c8)) /\ Tick) =>
        /\ c8'.panic = UnknownInstruction
        /\ c8'.pc = c8.pc + 2
        /\ SameButPc(c8, c8') ]_vars

IsCall(ins) == ins[1] = 2

IsRet(ins) == ins = <<0, 0, 14, 14>>

\* C13: calls and returns are last in, first out.  A 2nnn at address a puts
\* a + 2 on top of the stack; a 00EE with a non-empty stack moves the program
\* counter to the top entry, the address right after the most recent call
\* not yet returned from, and removes exactly that entry; a 00EE with an
\* empty stack is fatal; no other instruction touches the stack.
C13_CallReturnLifo ==
  [][ (Fetchable(c8) /\ Tick) =>
        LET ins == fetched(c8)
        IN  /\ IsCall(ins) =>
                 /\ c8'.stack = <<c8.pc + 2>> \o c8.stack
                 /\ c8'.pc = as_u16_3(ins[2], ins[3], ins[4])
            /\ (IsRet(ins) /\ c8.stack # << >>) =>
                 /\ c8'.pc = Head(c8.stack)
                 /\ c8'.stack = Tail(c8.stack)
                 /\ c8'.panic = NoPanic
            /\ (IsRet(ins) /\ c8.stack = << >>) => c8'.panic = EmptyStack
            /\ (~IsCall(ins) /\ ~IsRet(ins)) => c8'.stack = c8.stack ]_vars

\* the inner of two nested calls has returned to 0x206 and the outer call's
\* return address is what is left
C13_Witness ==
  /\ Holds(c8, CallRetRom)
  /\ c8.pc = 518
  /\ c8.stack = <<514>>
  /\ c8.panic = NoPanic

IsGetDelay(ins) == ins[1] = 15 /\ ins[3] = 0 /\ ins[4] = 7

IsSetDelay(ins) == ins[1] = 15 /\ ins[3] = 1 /\ ins[4] = 5

IsSetSound(ins) == ins[1] = 15 /\ ins[3] = 1 /\ ins[4] = 8

\* C14: within one tick the timers are advanced before the instruction is
\* executed.  Fx07 leaves in register x the delay value as it is after that
\* tick's decay step; Fx15 (Fx18) leaves the delay (sound) timer holding
\* exactly the value of register x at the end of the tick.
C14_TimersBeforeInstruction ==
  [][ TickLater =>
        LET ins == fetched(c8)
            x   == ins[2]
        IN  /\ IsGetDelay(ins) => c8'.reg[x] = c8'.delay.val
            /\ IsSetDelay(ins) => c8'.delay.val = c8.reg[x]
            /\ IsSetSound(ins) => c8'.sound.val = c8.reg[x] ]_vars

\* Fx07 has just stored a value that the delay timer lost a unit of in this
\* very tick: the accumulator is below the time elapsed since the timer was
\* made, which only a decrement in the latest update can bring about
C14_Witness ==
  /\ \E v \in 1..MaxGiven : Holds(c8, ClockRom(v))
  /\ c8.pc = 520
  /\ c8.reg[1] = c8.delay.val
  /\ c8.reg[1] < c8.reg[0]
  /\ c8.delay.acc < now - c8.delay.last

\* C15: a timer's value never rises except by assignment and never falls
\* below zero.  Across a tick whose instruction is not Fx15 the delay value
\* afterwards is at most the value before and at least 0; the same for the
\* sound timer and Fx18; so a timer at 0 stays at 0 until it is set.
C15_TimersOnlyFall ==
  [][ TickLater =>
        LET ins == fetched(c8)
        IN  /\ ~IsSetDelay(ins) =>
                 /\ c8'.delay.val <= c8.delay.val
                 /\ c8'.delay.val >= 0
            /\ ~IsSetSound(ins) =>
                 /\ c8'.sound.val <= c8.sound.val
                 /\ c8'.sound.val >= 0 ]_vars

\* both timers were set to a positive value and have run down to 0
C15_Witness ==
  /\ \E v \in 1..MaxGiven : Holds(c8, ClockRom(v))
  /\ c8.pc \in {518, 520}
  /\ c8.reg[0] > 0
  /\ c8.delay.val = 0
  /\ c8.sound.val = 0

\* the cells of the grid that the sprite of n rows at the index register
\* covers with a set bit when its top left corner is at (sx, sy), clipped
\* at the right and bottom edges
SpriteCells(s, sx, sy, n) ==
  { cell \in { <<sx + c, sy + r>> : c \in 0..7, r \in 0..(n - 1) } :
      /\ cell[1] < WIDTH
      /\ cell[2] < HEIGHT
      /\ Bit(s.memory[s.i + (cell[2] - sy)], 7 - (cell[1] - sx)) = 1 }

\* the cells whose state differs between s and t
Toggled(s, t) == (s.display \ t.display) \cup (t.display \ s.display)

\* C16: Dxyn changes exactly the clipped sprite cells, the sprite's corner
\* being at (register x mod 64, register y mod 32) with the register values
\* the instruction starts with, for every x and y in 0..15; no cell wraps
\* and every other cell is unchanged.
C16_DrawExactCells ==
  [][ (IsDraw(fetched(c8)) /\ c8'.panic = NoPanic /\ TickNow) =>
        LET ins == fetched(c8)
        IN  Toggled(c8, c8') =
              SpriteCells(c8, c8.reg[ins[2]] % WIDTH, c8.reg[ins[3]] % HEIGHT,
                          ins[4]) ]_vars

\* C17: after a draw register 15 is 1 if at least one cell of the grid was
\* on before the draw and is off after it, and 0 otherwise (a sprite of no
\* rows or one clipped away included), whatever register 15 held before.
C17_CollisionFlag ==
  [][ (IsDraw(fetched(c8)) /\ c8'.panic = NoPanic /\ TickNow) =>
        c8'.reg[15] = IF c8.display \ c8'.display # {} THEN 1 ELSE 0 ]_vars

\* the second draw of glyph 0, three columns right of the first, has
\* erased cells and raised the flag that the first draw had left at 0
C17_Witness ==
  /\ Holds(c8, DrawRom(1, 2, 0, 0, FONT_START, 5))
  /\ c8.pc = PROGRAM_START + 12
  /\ c8.reg[1] = 3
  /\ c8.reg[15] = 1
  /\ <<3, 0>> \notin c8.display

IsRand(ins) == ins[1] = 12

\* the values register x can hold after the instruction at the program
\* counter of s, over everything random::<u8>() can return
Outcomes(s, x) == { tick(s, now, rnd).reg[x] : rnd \in RandomBytes(s) }

\* C18: the values register x can hold after Cxnn are exactly the values
\* r AND nn for r in 0..255: every byte, 255 included, can be the random
\* byte, so that after CxFF register x can be any value in 0..255.
C18_RandomRange ==
  (c8.panic = NoPanic /\ Fetchable(c8) /\ IsRand(fetched(c8))) =>
    LET ins == fetched(c8)
    IN  Outcomes(c8, ins[2]) =
          { BitAnd(r, as_u16_2(ins[3], ins[4])) : r \in 0..255 }

\* C19: the call stack never holds more return addresses than the capacity
\* it is constructed with, programs that call without returning included.
C19_StackBounded == Len(c8.stack) <= STACK_CAPACITY

IsSkip(ins) ==
  \/ ins[1] \in {3, 4}
  \/ ins[1] \in {5, 9} /\ ins[4] = 0
  \/ IsKeyTest(ins)

\* the condition of the skip instruction ins in state s
SkipCond(s, ins) ==
  LET vx == s.reg[ins[2]]
      vy == s.reg[ins[3]]
      nn == as_u16_2(ins[3], ins[4])
  IN  CASE ins[1] = 3 -> vx = nn
        [] ins[1] = 4 -> vx # nn
        [] ins[1] = 5 -> vx = vy
        [] ins[1] = 9 -> vx # vy
        [] ins[1] = 14 /\ ins[3] = 9 -> vx \in Down(s)
        [] OTHER -> vx \notin Down(s)

\* C20: a conditional skip (3xnn, 4xnn, 5xy0, 9xy0, Ex9E, ExA1) only moves
\* the program counter: after the tick it is 4 past the instruction's
\* address if the condition holds and 2 past it otherwise; the instruction
\* skipped over is not executed, and the registers, the index register,
\* memory, the stack, the display and the input vector are unchanged.
C20_SkipOnlyMovesPc ==
  [][ (Fetchable(c8) /\ IsSkip(fetched(c8)) /\ Tick) =>
        /\ c8'.pc = c8.pc + (IF SkipCond(c8, fetched(c8)) THEN 4 ELSE 2)
        /\ SameButPc(c8, c8') ]_vars

====
